---- MODULE Spec2Model ----
(***************************************************************************)
(* Model of irispy/new_sji.py: the level 2 SJI loader                      *)
(* read_iris_sji_level2_fits and the summary renderer SJICube.__repr__.    *)
(*                                                                         *)
(* A FITS file is two header/data units.  Unit 0 holds the image cube (a   *)
(* sequence of frames, each a sequence of pixels) and the primary header;  *)
(* unit 1 holds a 2-D array of per-frame values (one row per table row)    *)
(* and a header that maps a column name to its column index.              *)
(*                                                                         *)
(* Python values are tagged records: [kind |-> "str", s], [kind |->        *)
(* "timestr", hms], [kind |-> "num", n], [kind |-> "datetime", secs],      *)
(* [kind |-> "None"].                                                      *)
(***************************************************************************)
EXTENDS Integers, Sequences, FiniteSets, TLC

VARIABLES
    input_data,   \* the pixel values as stored in the file (never changes)
    hdu0_data,    \* my_file[0].data, the in-memory array (rewritten in place)
    hdu0_header,  \* my_file[0].header
    hdu1_data,    \* my_file[1].data
    hdu1_header,  \* my_file[1].header
    handle,       \* the file handle: "unopened", "open" or "closed"
    pc,           \* "call", "returned" or "raised"
    error,        \* the exception that left the loader, or NoError
    result,       \* the SJICube the loader returned, or None
    repr_out      \* what SJICube.__repr__ produced, or NotCalled

vars == <<input_data, hdu0_data, hdu0_header, hdu1_data, hdu1_header,
          handle, pc, error, result, repr_out>>

-----------------------------------------------------------------------------
(* Bounds of the model *)

MaxFrames == 2
MaxRows == 2

-----------------------------------------------------------------------------
(* Module constants *)

BAD_PIXEL_VALUE == -200
BAD_PIXEL_VALUE_UNSCALED == -32768

\* iris_tools.DN_UNIT["SJI"]: photons per DN of the slit-jaw imager
DN_UNIT_SJI == 18
\* iris_tools.READOUT_NOISE["SJI"], in tenths of a DN (1.2 DN)
READOUT_NOISE_SJI == 12

None == [kind |-> "None"]
Str(s) == [kind |-> "str", s |-> s]
Num(n) == [kind |-> "num", n |-> n]
TimeStr(h, m, s) == [kind |-> "timestr", hms |-> <<h, m, s>>]
DateTime(secs) == [kind |-> "datetime", secs |-> secs]
Unknown == Str("Unknown")

NoError == [type |-> "none"]
KeyError(unit, key) == [type |-> "KeyError", unit |-> unit, key |-> key]
ValueError == [type |-> "ValueError"]
TypeError == [type |-> "TypeError"]
NotCalled == [type |-> "not called"]

-----------------------------------------------------------------------------
(* The files the loader is given *)

ScalarKeys == {"TELESCOP", "INSTRUME", "TWAVE1", "OBSID", "OBS_DESC"}
DateKeys == {"DATE_OBS", "DATE_END", "STARTOBS", "ENDOBS"}
HeaderKeys == ScalarKeys \cup DateKeys

ColumnKeys == <<"EXPTIMES", "TIME", "PZTX", "PZTY", "XCENIX", "YCENIX",
                "OBS_VRIX", "OPHASEIX">>
ColumnKeySet == {ColumnKeys[i] : i \in DOMAIN ColumnKeys}

\* A frame of two pixels; the patterns put the unscaled sentinel at either
\* position, next to the scaled sentinel, a small negative and positive values.
FramePatterns ==
    { <<BAD_PIXEL_VALUE_UNSCALED, 5>>,
      <<BAD_PIXEL_VALUE, BAD_PIXEL_VALUE_UNSCALED>>,
      <<-20, 100>> }

Images == UNION { [1..n -> FramePatterns] : n \in 1..MaxFrames }

StartTimes == { TimeStr(0, 0, 30), TimeStr(1, 2, 0) }

FullHeader(start) ==
    [k \in HeaderKeys |->
        CASE k = "TELESCOP" -> Str("IRIS")
          [] k = "INSTRUME" -> Str("SJI")
          [] k = "TWAVE1"   -> Num(1400)
          [] k = "OBSID"    -> Num(3820)
          [] k = "OBS_DESC" -> Str("Large sit-and-stare")
          [] k = "DATE_OBS" -> TimeStr(0, 0, 31)
          [] k = "DATE_END" -> TimeStr(2, 0, 0)
          [] k = "STARTOBS" -> start
          [] k = "ENDOBS"   -> TimeStr(2, 0, 1)]

Restrict(f, S) == [k \in S |-> f[k]]

\* Primary headers: complete, one field absent, every field but STARTOBS
\* absent, every field absent, DATE_OBS present but blank, or DATE_END a zero.
PrimaryHeaders ==
    LET absent == {{}} \cup {{k} : k \in HeaderKeys}
                       \cup {HeaderKeys \ {"STARTOBS"}, HeaderKeys}
    IN UNION { { Restrict(FullHeader(st), HeaderKeys \ a) : a \in absent }
               \cup { [FullHeader(st) EXCEPT !["DATE_OBS"] = Str("")],
                      [FullHeader(st) EXCEPT !["DATE_END"] = Num(0)] }
               : st \in StartTimes }

\* The header of unit 1 gives each column's (0-based) index.
FullTableHeader == [k \in ColumnKeySet |->
                      (CHOOSE i \in DOMAIN ColumnKeys : ColumnKeys[i] = k) - 1]

TableHeaders ==
    { Restrict(FullTableHeader, ColumnKeySet \ m) :
        m \in {{}} \cup {{k} : k \in ColumnKeySet} }

ElapsedValues == {0, 3}

\* Unit 1's array, of no row or more: row r holds the elapsed seconds in the TIME column and a
\* value that tells row and column apart in every other column.
TableOf(elapsed) ==
    [r \in DOMAIN elapsed |->
        [c \in DOMAIN ColumnKeys |->
            IF c = FullTableHeader["TIME"] + 1 THEN elapsed[r] ELSE 10 * c + r]]

Tables == { TableOf(e) : e \in UNION { [1..n -> ElapsedValues] : n \in 0..MaxRows } }

-----------------------------------------------------------------------------
(* Library operations the loader uses *)

\* header.get(key, default)
header_get(h, k, default) == IF k \in DOMAIN h THEN h[k] ELSE default

\* Python truth value of a header value: None, the empty string and a zero
\* number are false.
Truthy(v) == /\ v.kind # "None"
             /\ ~(v.kind = "str" /\ v.s = "")
             /\ ~(v.kind = "num" /\ v.n = 0)

\* sunpy.time.parse_time on a time text "hh:mm:ss": seconds since midnight.
parse_time(v) == DateTime(v.hms[1] * 3600 + v.hms[2] * 60 + v.hms[3])

\* datetime.__format__(TIME_FORMAT): back to <<hh, mm, ss>>.
strftime(dt) == << dt.secs \div 3600, (dt.secs % 3600) \div 60, dt.secs % 60 >>

\* my_file[1].data[:, my_file[1].header[key]]
Column(tbl, thdr, key) == [r \in DOMAIN tbl |-> tbl[r][thdr[key] + 1]]

\* values * unit
Quantity(values, unit) == [unit |-> unit, value |-> values]

RECURSIVE ISqrtIn(_, _, _)
ISqrtIn(n, lo, hi) ==
    IF lo >= hi THEN lo
    ELSE LET mid == (lo + hi + 1) \div 2
         IN IF mid * mid <= n THEN ISqrtIn(n, mid, hi) ELSE ISqrtIn(n, lo, mid - 1)

\* floor of the square root of n >= 0 (46340 is the largest root of a 32-bit n)
ISqrt(n) == ISqrtIn(n, 0, IF n > 46340 THEN 46340 ELSE n)

NaN == [nan |-> TRUE]
Finite(v) == [nan |-> FALSE, milli |-> v]

\* np.sqrt: nan for a negative argument (a RuntimeWarning, no exception).
np_sqrt(x) == IF x < 0 THEN NaN ELSE Finite(ISqrt(x))

Shape(a) == << Len(a), IF Len(a) = 0 THEN 0 ELSE Len(a[1]) >>

-----------------------------------------------------------------------------
(* read_iris_sji_level2_fits, statement by statement *)

\* A loader that forgets the rewrite of the bad pixels.
data_nan_masked_unchanged(d) == d

\* data_nan_masked[data == BAD_PIXEL_VALUE_UNSCALED] = BAD_PIXEL_VALUE
\* (data and data_nan_masked are the same array, my_file[0].data)
data_nan_masked(d) ==
    [f \in DOMAIN d |->
        [p \in DOMAIN d[f] |->
            IF d[f][p] = BAD_PIXEL_VALUE_UNSCALED THEN BAD_PIXEL_VALUE ELSE d[f][p]]]

\* mask = data_nan_masked == BAD_PIXEL_VALUE_UNSCALED, read after the rewrite
mask(dnm) ==
    [f \in DOMAIN dnm |->
        [p \in DOMAIN dnm[f] |-> dnm[f][p] = BAD_PIXEL_VALUE_UNSCALED]]

\* (data_nan_masked*unit).to(u.photon).value
\*     + readout_noise.to(u.photon).value**2, in hundredths of a photon
radicand(v) == v * DN_UNIT_SJI * 100 + (READOUT_NOISE_SJI * DN_UNIT_SJI) ^ 2

\* u.Quantity(np.sqrt(...), unit=u.photon).to(unit).value, in thousandths of a DN
uncertainty_of(v) ==
    LET r == np_sqrt(radicand(v))
    IN IF r.nan THEN NaN ELSE Finite((r.milli * 100) \div DN_UNIT_SJI)

uncertainty(dnm) ==
    [f \in DOMAIN dnm |-> [p \in DOMAIN dnm[f] |-> uncertainty_of(dnm[f][p])]]

\* A loader that subtracts the elapsed seconds from the start time.
times_backwards(startobs, seconds) ==
    [i \in DOMAIN seconds |-> DateTime(parse_time(startobs).secs - seconds[i])]

\* np.array([parse_time(header["STARTOBS"]) + timedelta(seconds=s) for s in ...])
times(startobs, seconds) ==
    [i \in DOMAIN seconds |-> DateTime(parse_time(startobs).secs + seconds[i])]

\* The header lookups by subscript, in the order the loader makes them.  The
\* TIME column is looked up once, as the iterable of the comprehension; STARTOBS
\* is looked up in the comprehension's body, once per table row.
RequiredLookups ==
    << <<"table", "EXPTIMES">>, <<"table", "TIME">>, <<"primary", "STARTOBS">>,
       <<"table", "PZTX">>, <<"table", "PZTY">>, <<"table", "XCENIX">>,
       <<"table", "YCENIX">>, <<"table", "OBS_VRIX">>, <<"table", "OPHASEIX">> >>

\* A lookup in the primary header is made only when the table has a row.
LookupFails(l, h0, h1, tbl) ==
    IF l[1] = "table"
    THEN l[2] \notin DOMAIN h1
    ELSE Len(tbl) > 0 /\ l[2] \notin DOMAIN h0

FailedLookups(h0, h1, tbl) ==
    { i \in DOMAIN RequiredLookups : LookupFails(RequiredLookups[i], h0, h1, tbl) }

\* The first lookup that raises.
FirstFailure(h0, h1, tbl) ==
    LET i == CHOOSE i \in FailedLookups(h0, h1, tbl) :
                 \A j \in FailedLookups(h0, h1, tbl) : i <= j
    IN KeyError(RequiredLookups[i][1], RequiredLookups[i][2])

\* A loader that leaves the exposure times out of the coordinate list.
extra_coords_seven(h0, tbl, h1) ==
    << <<"TIME", 0, Quantity(times(h0["STARTOBS"], Column(tbl, h1, "TIME")), "datetime")>>,
       <<"PZTX", 0, Quantity(Column(tbl, h1, "PZTX"), "arcsec")>>,
       <<"PZTY", 0, Quantity(Column(tbl, h1, "PZTY"), "arcsec")>>,
       <<"XCENIX", 0, Quantity(Column(tbl, h1, "XCENIX"), "arcsec")>>,
       <<"YCENIX", 0, Quantity(Column(tbl, h1, "YCENIX"), "arcsec")>>,
       <<"OBS_VRIX", 0, Quantity(Column(tbl, h1, "OBS_VRIX"), "m/s")>>,
       <<"OPHASEIX", 0, Quantity(Column(tbl, h1, "OPHASEIX"), "")>> >>

extra_coords(h0, tbl, h1) ==
    << <<"TIME", 0, Quantity(times(h0["STARTOBS"], Column(tbl, h1, "TIME")), "datetime")>>,
       <<"PZTX", 0, Quantity(Column(tbl, h1, "PZTX"), "arcsec")>>,
       <<"PZTY", 0, Quantity(Column(tbl, h1, "PZTY"), "arcsec")>>,
       <<"XCENIX", 0, Quantity(Column(tbl, h1, "XCENIX"), "arcsec")>>,
       <<"YCENIX", 0, Quantity(Column(tbl, h1, "YCENIX"), "arcsec")>>,
       <<"OBS_VRIX", 0, Quantity(Column(tbl, h1, "OBS_VRIX"), "m/s")>>,
       <<"OPHASEIX", 0, Quantity(Column(tbl, h1, "OPHASEIX"), "")>>,
       <<"EXPOSURE TIME", 0, Quantity(Column(tbl, h1, "EXPTIMES"), "")>> >>

\* A loader that stores a date field as the header gives it, unparsed.
date_field_raw(h, k) == header_get(h, k, None)

\* x = header.get(key, None); x = parse_time(x) if x else None
date_field(h, k) ==
    LET x == header_get(h, k, None)
    IN IF Truthy(x) THEN parse_time(x) ELSE None

meta(h, d) ==
    [k \in {"TELESCOP", "INSTRUME", "TWAVE1", "DATE_OBS", "DATE_END", "STARTOBS",
            "ENDOBS", "NBFRAMES", "OBSID", "OBS_DESC"} |->
        CASE k = "TELESCOP" -> header_get(h, "TELESCOP", Unknown)
          [] k = "INSTRUME" -> header_get(h, "INSTRUME", Unknown)
          [] k = "TWAVE1"   -> header_get(h, "TWAVE1", Unknown)
          [] k = "DATE_OBS" -> date_field(h, "DATE_OBS")
          [] k = "DATE_END" -> date_field(h, "DATE_END")
          [] k = "STARTOBS" -> date_field(h, "STARTOBS")
          [] k = "ENDOBS"   -> date_field(h, "ENDOBS")
          [] k = "NBFRAMES" -> Num(Shape(d)[1])
          [] k = "OBSID"    -> header_get(h, "OBSID", Unknown)
          [] k = "OBS_DESC" -> header_get(h, "OBS_DESC", Unknown)]

\* WCS(my_file[0].header)
WCS(h) == [header |-> h]

\* SJICube(data_nan_masked, wcs, uncertainty=..., unit=..., meta=..., mask=...,
\*         extra_coords=...)
SJICube(dnm, h0, tbl, h1) ==
    [data |-> dnm,
     wcs |-> WCS(h0),
     uncertainty |-> uncertainty(dnm),
     unit |-> DN_UNIT_SJI,
     meta |-> meta(h0, dnm),
     mask |-> mask(dnm),
     extra_coords |-> extra_coords(h0, tbl, h1)]

\* The base class constructor (ndcube, not part of this module) is handed the
\* coordinate series as the loader built them.  Whether it accepts series whose
\* length differs from the length of the axis they are attached to is not
\* decided by this module: both outcomes are kept.
ConstructorOutcomes(cube) ==
    IF \A i \in DOMAIN cube.extra_coords :
           Len(cube.extra_coords[i][3].value) = Shape(cube.data)[cube.extra_coords[i][2] + 1]
    THEN {"constructed"}
    ELSE {"constructed", "ValueError"}

-----------------------------------------------------------------------------
(* SJICube.__repr__ *)

\* self.extra_coords[name]["value"]
coord_value(cube, name) ==
    LET i == CHOOSE i \in DOMAIN cube.extra_coords : cube.extra_coords[i][1] = name
    IN cube.extra_coords[i][3].value

\* "{x:{tmf}}".format(x=v, tmf=TIME_FORMAT): a datetime takes a time format;
\* None raises TypeError (unsupported format string passed to
\* NoneType.__format__); a str or a number raises ValueError (invalid format
\* specifier).
Formattable(v) == v.kind = "datetime"

FormatError(v) == IF v.kind = "None" THEN TypeError ELSE ValueError

\* The metadata keys the format arguments read before and after the TIME series.
ReprKeysBefore == <<"TELESCOP", "INSTRUME", "TWAVE1", "DATE_OBS", "DATE_END">>
ReprKeysAfter == <<"NBFRAMES", "OBSID", "OBS_DESC">>
ReprKeys == {ReprKeysBefore[i] : i \in DOMAIN ReprKeysBefore}
                \cup {ReprKeysAfter[i] : i \in DOMAIN ReprKeysAfter}

\* The arguments of format() are evaluated in the order written: the five
\* metadata keys up to DATE_END, the first and last TIME value, then NBFRAMES,
\* OBSID and OBS_DESC, the axis types and the dimensions.  The template is then
\* filled left to right, so the first time slot that cannot be formatted raises.
SJICube_repr(cube) ==
    IF \E i \in DOMAIN ReprKeysBefore : ReprKeysBefore[i] \notin DOMAIN cube.meta
    THEN [type |-> "KeyError"]
    ELSE IF \A i \in DOMAIN cube.extra_coords : cube.extra_coords[i][1] # "TIME"
    THEN [type |-> "KeyError"]
    ELSE IF Len(coord_value(cube, "TIME")) = 0
    THEN [type |-> "IndexError"]
    ELSE IF \E i \in DOMAIN ReprKeysAfter : ReprKeysAfter[i] \notin DOMAIN cube.meta
    THEN [type |-> "KeyError"]
    ELSE LET t == coord_value(cube, "TIME")
             slots == << cube.meta["DATE_OBS"], cube.meta["DATE_END"], t[1], t[Len(t)] >>
             bad == { i \in DOMAIN slots : ~Formattable(slots[i]) }
         IN IF bad # {}
            THEN FormatError(slots[CHOOSE i \in bad : \A j \in bad : i <= j])
            ELSE [type |-> "text",
                  obs |-> cube.meta["TELESCOP"],
                  instrument |-> cube.meta["INSTRUME"],
                  bandpass |-> cube.meta["TWAVE1"],
                  date_start |-> strftime(slots[1]),
                  date_end |-> strftime(slots[2]),
                  instance_start |-> strftime(slots[3]),
                  instance_end |-> strftime(slots[4]),
                  frame_num |-> cube.meta["NBFRAMES"],
                  obs_id |-> cube.meta["OBSID"],
                  obs_desc |-> cube.meta["OBS_DESC"],
                  dimensions |-> Shape(cube.data),
                  axis_types |-> cube.wcs]

-----------------------------------------------------------------------------
(* The state machine *)

Init ==
    /\ input_data \in Images
    /\ hdu0_data = input_data
    /\ hdu0_header \in PrimaryHeaders
    /\ hdu1_data \in Tables
    /\ hdu1_header \in TableHeaders
    /\ handle = "unopened"
    /\ pc = "call"
    /\ error = NoError
    /\ result = None
    /\ repr_out = NotCalled

\* One call of the loader.  fits.open opens the handle; the rewrite of the bad
\* pixels happens in place before the first header lookup; a failed lookup leaves
\* the function at once; my_file.close() is the last statement before the return.
read_iris_sji_level2_fits ==
    /\ pc = "call"
    /\ hdu0_data' = data_nan_masked(hdu0_data)
    /\ IF FailedLookups(hdu0_header, hdu1_header, hdu1_data) # {}
       THEN /\ pc' = "raised"
            /\ error' = FirstFailure(hdu0_header, hdu1_header, hdu1_data)
            /\ handle' = "open"
            /\ result' = None
       ELSE LET cube == SJICube(data_nan_masked(hdu0_data), hdu0_header,
                                hdu1_data, hdu1_header)
            IN /\ handle' = "closed"
               /\ \E o \in ConstructorOutcomes(cube) :
                    IF o = "constructed"
                    THEN pc' = "returned" /\ error' = NoError /\ result' = cube
                    ELSE pc' = "raised" /\ error' = ValueError /\ result' = None
    /\ UNCHANGED <<input_data, hdu0_header, hdu1_data, hdu1_header, repr_out>>

\* repr() of the cube the loader returned.
Repr ==
    /\ pc = "returned"
    /\ repr_out = NotCalled
    /\ repr_out' = SJICube_repr(result)
    /\ UNCHANGED <<input_data, hdu0_data, hdu0_header, hdu1_data, hdu1_header,
                   handle, pc, error, result>>

Next == read_iris_sji_level2_fits \/ Repr

Spec == Init /\ [][Next]_vars

-----------------------------------------------------------------------------
(* Properties *)

Exited == pc \in {"returned", "raised"}

Pixels == { <<f, p>> : f \in DOMAIN input_data, p \in 1..Len(input_data[1]) }

WasSentinel(x) == input_data[x[1]][x[2]] = BAD_PIXEL_VALUE_UNSCALED

SameShape(a, b) ==
    /\ DOMAIN a = DOMAIN b
    /\ \A f \in DOMAIN a : DOMAIN a[f] = DOMAIN b[f]

\* The elapsed-seconds column as the file stores it.
Elapsed == [r \in DOMAIN hdu1_data |-> hdu1_data[r][FullTableHeader["TIME"] + 1]]

NonDecreasing(q) == \A i, j \in DOMAIN q : i < j => q[i] <= q[j]

\* C1: after the loader returns, mask[p] is True exactly where the input pixel
\* was the unscaled bad-pixel sentinel.
C1_MaskFlagsSentinel ==
    pc = "returned" =>
        \A x \in Pixels : result.mask[x[1]][x[2]] = WasSentinel(x)

\* C2: after the loader returns, the data has the shape of the input and of the
\* mask; a pixel that was the unscaled sentinel is the scaled sentinel, every
\* other pixel is unchanged.
C2_DataRewritten ==
    pc = "returned" =>
        /\ SameShape(result.data, input_data)
        /\ SameShape(result.data, result.mask)
        /\ \A x \in Pixels :
              result.data[x[1]][x[2]] =
                  IF WasSentinel(x) THEN BAD_PIXEL_VALUE ELSE input_data[x[1]][x[2]]

C2_Witness ==
    /\ pc = "returned"
    /\ \E x, y \in Pixels :
          /\ WasSentinel(x) /\ result.data[x[1]][x[2]] = BAD_PIXEL_VALUE
          /\ ~WasSentinel(y) /\ input_data[y[1]][y[2]] # BAD_PIXEL_VALUE
          /\ result.data[y[1]][y[2]] = input_data[y[1]][y[2]]

\* C3: whenever the loader has exited, by return or by a failed lookup, the
\* file handle is closed.
C3_HandleClosedOnExit == Exited => handle = "closed"

\* C4: an absent optional primary-header field never makes the load raise; an
\* absent scalar field gives "Unknown", an absent date field gives None.
C4_AbsentFieldNeverRaises ==
    /\ pc = "raised" => ~(error.type = "KeyError" /\ error.unit = "primary")
    /\ pc = "returned" =>
          /\ \A k \in ScalarKeys \ DOMAIN hdu0_header : result.meta[k] = Unknown
          /\ \A k \in DateKeys \ DOMAIN hdu0_header : result.meta[k] = None

\* C5: after a successful load the uncertainty has the shape of the data and is
\* finite and non-negative at every pixel (every data value is finite).
C5_UncertaintyFinite ==
    pc = "returned" =>
        /\ SameShape(result.uncertainty, result.data)
        /\ \A x \in Pixels :
              /\ ~result.uncertainty[x[1]][x[2]].nan
              /\ result.uncertainty[x[1]][x[2]].milli >= 0

\* C6: after a successful load every coordinate series is attached to axis 0
\* and is as long as the data's leading dimension, which is NBFRAMES.  The
\* loader takes each series from the table's rows and NBFRAMES from the data;
\* the formula holds exactly when the base constructor rejects a table whose
\* row count differs from the frame count.
C6_SeriesLengthIsFrameCount ==
    pc = "returned" =>
        /\ result.meta["NBFRAMES"] = Num(Len(result.data))
        /\ \A i \in DOMAIN result.extra_coords :
              /\ result.extra_coords[i][2] = 0
              /\ Len(result.extra_coords[i][3].value) = Len(result.data)

\* C7: the TIME series has one entry per table row, entry i is the parsed
\* STARTOBS plus the elapsed seconds of row i, and it is non-decreasing whenever
\* the elapsed-seconds column is.
C7_TimesFromStartobs ==
    pc = "returned" =>
        LET t == coord_value(result, "TIME")
            start == hdu0_header["STARTOBS"].hms
        IN /\ Len(t) = Len(hdu1_data)
           /\ \A i \in DOMAIN t :
                 t[i] = DateTime(start[1] * 3600 + start[2] * 60 + start[3] + Elapsed[i])
           /\ NonDecreasing(Elapsed) =>
                 NonDecreasing([i \in DOMAIN t |-> t[i].secs])

C7_Witness ==
    /\ pc = "returned"
    /\ Len(hdu1_data) >= 2
    /\ Elapsed[1] < Elapsed[2]
    /\ coord_value(result, "TIME")[1].secs < coord_value(result, "TIME")[2].secs
    /\ coord_value(result, "TIME")[1].secs > Elapsed[1]

CoordNames == [i \in DOMAIN result.extra_coords |-> result.extra_coords[i][1]]

\* What the container is built from, the coordinate list aside.
ContainerParts ==
    /\ result.data = hdu0_data
    /\ \A x \in Pixels : result.data[x[1]][x[2]] # BAD_PIXEL_VALUE_UNSCALED
    /\ result.wcs = WCS(hdu0_header)
    /\ SameShape(result.uncertainty, result.data)
    /\ result.unit = DN_UNIT_SJI
    /\ result.meta["NBFRAMES"] = Num(Len(input_data))
    /\ SameShape(result.mask, result.data)
    /\ \A i \in DOMAIN result.extra_coords :
          /\ result.extra_coords[i][2] = 0
          /\ Len(result.extra_coords[i][3].value) = Len(hdu1_data)

\* C8 as stated: the container is built from the corrected data, the world
\* coordinates, uncertainty, unit, metadata, mask and a list of exactly seven
\* coordinates.
C8_SevenCoords ==
    pc = "returned" =>
        /\ ContainerParts
        /\ Len(result.extra_coords) = 7
        /\ CoordNames = <<"TIME", "PZTX", "PZTY", "XCENIX", "YCENIX", "OBS_VRIX",
                          "OPHASEIX">>

\* C8 amended: the list has exactly eight entries, the exposure time last.
C8_EightCoords ==
    pc = "returned" =>
        /\ ContainerParts
        /\ Len(result.extra_coords) = 8
        /\ CoordNames = <<"TIME", "PZTX", "PZTY", "XCENIX", "YCENIX", "OBS_VRIX",
                          "OPHASEIX", "EXPOSURE TIME">>
        /\ result.extra_coords[8][3].value =
              [r \in DOMAIN hdu1_data |-> hdu1_data[r][FullTableHeader["EXPTIMES"] + 1]]

C8_Witness ==
    /\ pc = "returned"
    /\ Len(result.extra_coords) = 8
    /\ result.extra_coords[8][1] = "EXPOSURE TIME"
    /\ Len(result.extra_coords[8][3].value) = 2

\* The metadata fields that hold a copied header value or the "Unknown" default.
CopiedFields ==
    { k \in DOMAIN result.meta \ {"NBFRAMES"} : result.meta[k].kind \in {"str", "num"} }

\* The metadata fields that hold a parsed timestamp or None.
TimeFields ==
    { k \in DOMAIN result.meta : result.meta[k].kind \in {"datetime", "None"} }

MetaValues ==
    /\ result.meta["NBFRAMES"] = Num(Len(input_data))
    /\ \A k \in CopiedFields :
          IF k \in DOMAIN hdu0_header
          THEN result.meta[k] = hdu0_header[k]
          ELSE result.meta[k].s = "Unknown"
    /\ \A k \in DateKeys :
          /\ k \in TimeFields
          /\ k \notin DOMAIN hdu0_header => result.meta[k].kind = "None"
          /\ (k \in DOMAIN hdu0_header /\ hdu0_header[k] \in {Str(""), Num(0)}) =>
                result.meta[k].kind = "None"
          /\ (k \in DOMAIN hdu0_header /\ hdu0_header[k].kind = "timestr") =>
                /\ result.meta[k].kind = "datetime"
                /\ strftime(result.meta[k]) = hdu0_header[k].hms

\* C9 as stated: eight copied scalar fields, two date fields.
C9_EightScalarsTwoDates ==
    pc = "returned" =>
        /\ Cardinality(CopiedFields) = 8
        /\ Cardinality(TimeFields) = 2
        /\ MetaValues

\* C9 amended: five copied scalar fields (TELESCOP, INSTRUME, TWAVE1, OBSID,
\* OBS_DESC), four date fields (DATE_OBS, DATE_END, STARTOBS, ENDOBS), the frame
\* count; a date field is a parsed timestamp or None, nothing else.
C9_FiveScalarsFourDates ==
    pc = "returned" =>
        /\ DOMAIN result.meta = ScalarKeys \cup DateKeys \cup {"NBFRAMES"}
        /\ CopiedFields = ScalarKeys
        /\ TimeFields = DateKeys
        /\ MetaValues

C9_Witness ==
    /\ pc = "returned"
    /\ "OBSID" \notin DOMAIN hdu0_header /\ result.meta["OBSID"].s = "Unknown"
    /\ "DATE_END" \notin DOMAIN hdu0_header /\ result.meta["DATE_END"].kind = "None"
    /\ result.meta["STARTOBS"].kind = "datetime"
    /\ result.meta["NBFRAMES"] = Num(2)

\* C10: repr() of a cube the loader returned produces the summary text.
C10_ReprSucceeds == repr_out.type # "not called" => repr_out.type = "text"

====
